---- MODULE Spec2Model ----
(***************************************************************************)
(* The accounting session of python-accounting: the listeners that         *)
(* database/event_listeners.py registers on a session factory (query       *)
(* filtering, tenant binding, session indexes, validation before flush),   *)
(* the session options of database/session.py, and the ledger posting of   *)
(* a CashPurchase as tests/test_cash_purchase.py exercises it.              *)
(*                                                                         *)
(* Three specifications share the variables:                               *)
(*   Spec      the unit of work: add, modify, flush, commit;               *)
(*   SpecRead  reads through the do_orm_execute filter;                    *)
(*   SpecPost  line-item attachment and posting of one CashPurchase.       *)
(***************************************************************************)
EXTENDS Integers, Sequences, FiniteSets

VARIABLES
    objs,           \* the objects the session holds, by handle (1..Len)
    new,            \* session.new: handles of pending objects, in insertion order
    dirty,          \* session.dirty: handles of modified persistent objects
    db,             \* the rows of the open transaction, by identity (1..Len)
    active,         \* FALSE once a failed write ended the unit of work
    sessionEntity,  \* session.entity: Unset, NoneVal, or a reference
    sessionPeriod,  \* the reporting period the session resolved ("none"/"current")
    info,           \* session.info: include_deleted, ignore_isolation
    validated,      \* handles validate() was invoked on by the last operation, in order
    lastError,      \* the exception the last operation raised (NoError when none)
    lastOp,         \* the last operation of the caller
    lastRead,       \* the last read: its inputs and what it returned
    lineItems,      \* SpecPost: the line items attached to the transaction
    ledger,         \* SpecPost: the Ledger rows of the transaction, in order
    posted,         \* SpecPost: whether the transaction was posted
    postError       \* SpecPost: the exception of the last attach/post

vars == <<objs, new, dirty, db, active, sessionEntity, sessionPeriod, info,
          validated, lastError, lastOp, lastRead, lineItems, ledger, posted, postError>>
postVars == <<lineItems, ledger, posted, postError>>

(***************************************************************************)
(* Bounds                                                                  *)
(***************************************************************************)
MaxObjects == 3     \* objects one unit of work adds (Spec)
MaxLineItems == 2   \* line items attached to the transaction (SpecPost)
MaxIndexed == 4     \* objects one unit of work adds (SpecIndex)
MaxHeld == 3        \* objects one unit of work adds or loads (SpecWrite)
MaxLedgers == 3     \* Ledger objects one unit of work adds (SpecHash)
MaxReindexed == 3   \* objects one unit of work adds (SpecReindex)

(***************************************************************************)
(* Values                                                                  *)
(***************************************************************************)
NoId == 0           \* id / entity_id is None
NoIndex == -1       \* the object has no session_index attribute
Unset == [ref |-> "unset", at |-> 0]     \* the session has no entity attribute
NoneVal == [ref |-> "none", at |-> 0]    \* session.entity is None
ObjRef(h) == [ref |-> "obj", at |-> h]   \* session.entity is the object with handle h
RowRef(k) == [ref |-> "row", at |-> k]   \* session.entity is the Entity loaded from row k

Kinds == {"Entity", "Account", "Transaction", "Ledger"}

\* an exception: its class and the account types its message names
Error(name, types) == [name |-> name, types |-> types]
NoError == Error("", <<>>)

\* python_accounting.models: every record but Entity carries entity_id
IsIsolating(kind) == kind # "Entity"

\* python_accounting.models: the kinds here all derive from Recyclable
IsRecyclable(kind) == kind \in Kinds

\* validate(session) is expected on Transaction/LineItem/Account implementers
HasValidate(o) == o.kind \in {"Account", "Transaction"}

Object(kind, entityId, type, main) ==
    [kind |-> kind, id |-> NoId, entity_id |-> entityId, type |-> type,
     main |-> main, idx |-> NoIndex, rp |-> "none",
     folio |-> NoId, amount |-> 0, txn |-> NoId]

\* a Ledger object: type is its entry type, main its post account
LedgerObject(entityId, entry, postAccount, folioAccount, amount, txn) ==
    [Object("Ledger", entityId, entry, postAccount)
        EXCEPT !.folio = folioAccount, !.amount = amount, !.txn = txn]

\* the hash column of a row that has none
NoHash == <<>>

Row(kind, entityId, type, main, deleted, destroyed, rp) ==
    [kind |-> kind, entity_id |-> entityId, type |-> type, main |-> main,
     deleted |-> deleted, destroyed |-> destroyed, rp |-> rp,
     folio |-> NoId, amount |-> 0, txn |-> NoId, hash |-> NoHash]

\* the row an INSERT of object o writes
RowOf(o) ==
    [Row(o.kind, o.entity_id, o.type, o.main, FALSE, FALSE, o.rp)
        EXCEPT !.folio = o.folio, !.amount = o.amount, !.txn = o.txn]

\* list(S) of a set S whose iteration order is not defined: every
\* enumeration of S without repetition
RECURSIVE Orders(_)
Orders(S) ==
    IF S = {} THEN {<<>>}
    ELSE UNION {{<<x>> \o s : s \in Orders(S \ {x})} : x \in S}

Range(s) == {s[i] : i \in DOMAIN s}

\* F applied to the value of x, computed once
Then(x, F(_)) == CHOOSE r \in {F(y) : y \in {x}} : TRUE

(***************************************************************************)
(* Validation gate: _validate_model, before_flush                          *)
(***************************************************************************)
\* the account type the session sees for account id k: the object in the
\* identity map when there is one, else the stored row
AccountTypeOf(k, objs_, db_) ==
    IF \E h \in DOMAIN objs_ : objs_[h].id = k
    THEN objs_[CHOOSE h \in DOMAIN objs_ : objs_[h].id = k].type
    ELSE db_[k].type

\* "CashPurchase Transaction main Account be of type Bank"
CashPurchaseMainTypes == <<"Bank">>

\* faulty variant: Receivable is taken for a purchase account type
CashPurchaseLineItemTypes_WithReceivable ==
    <<"OperatingExpense", "DirectExpense", "OverheadExpense", "Expense",
      "NonCurrentAsset", "CurrentAsset", "Inventory", "Receivable">>

\* "CashPurchase Transaction Line Item Account type be one of: ..."
CashPurchaseLineItemTypes ==
    <<"OperatingExpense", "DirectExpense", "OverheadExpense", "Expense",
      "NonCurrentAsset", "CurrentAsset", "Inventory">>

\* model.validate(session): NoError when it passes, else the exception it
\* raises
Validate(o, objs_, db_) ==
    IF o.kind = "Transaction" /\ o.type = "CashPurchase"
       /\ AccountTypeOf(o.main, objs_, db_) \notin Range(CashPurchaseMainTypes)
    THEN Error("InvalidMainAccountError", CashPurchaseMainTypes)
    ELSE NoError

\* list(session.new) + list(session.dirty), dirtyList being the order in
\* which session.dirty iterates
ValidationList(new_, dirtyList) == new_ \o dirtyList

RECURSIVE ValidateFrom(_, _, _, _)
ValidateFrom(list, i, objs_, db_) ==
    IF i > Len(list) THEN [err |-> NoError, validated |-> <<>>]
    ELSE LET o == objs_[list[i]] IN
         IF ~HasValidate(o) THEN ValidateFrom(list, i + 1, objs_, db_)
         ELSE LET e == Validate(o, objs_, db_) IN
              IF e # NoError THEN [err |-> e, validated |-> <<list[i]>>]
              ELSE Then(ValidateFrom(list, i + 1, objs_, db_),
                        LAMBDA r : [err |-> r.err,
                                    validated |-> <<list[i]>> \o r.validated])

\* faulty variant: only the new models are validated
ValidateModel_NewOnly(new_, dirtyList, objs_, db_) ==
    ValidateFrom(new_, 1, objs_, db_)

\* faulty variant: only the dirty models are validated
ValidateModel_DirtyOnly(new_, dirtyList, objs_, db_) ==
    ValidateFrom(dirtyList, 1, objs_, db_)

\* _validate_model: validate every new and dirty model that has validate,
\* stopping at the first exception
ValidateModel(new_, dirtyList, objs_, db_) ==
    ValidateFrom(ValidationList(new_, dirtyList), 1, objs_, db_)

(***************************************************************************)
(* Flush                                                                   *)
(***************************************************************************)
\* a record can be written when it is an Entity or its entity_id resolves to
\* an existing Entity
Persistable(o, db_) ==
    \/ o.kind = "Entity"
    \/ o.entity_id \in DOMAIN db_ /\ db_[o.entity_id].kind = "Entity"

RECURSIVE InsertAll(_, _, _, _)
InsertAll(list, i, objs_, db_) ==
    IF i > Len(list) THEN [objs |-> objs_, db |-> db_]
    ELSE LET h == list[i] IN
         InsertAll(list, i + 1,
                   [objs_ EXCEPT ![h].id = Len(db_) + 1],
                   Append(db_, RowOf(objs_[h])))

UpdateAll(dirty_, objs_, db_) ==
    [k \in DOMAIN db_ |->
        IF \E h \in dirty_ : objs_[h].id = k
        THEN LET o == objs_[CHOOSE h \in dirty_ : objs_[h].id = k]
             IN [RowOf(o) EXCEPT !.deleted = db_[k].deleted,
                                 !.destroyed = db_[k].destroyed,
                                 !.hash = db_[k].hash]
        ELSE db_[k]]

\* session.flush(): before_flush validates; then every pending object is
\* inserted and every dirty one updated, or nothing is
FlushOutcome(objs_, new_, dirtyList, db_) ==
    Then(ValidateModel(new_, dirtyList, objs_, db_), LAMBDA v :
        IF v.err # NoError
        THEN [err |-> v.err, validated |-> v.validated, objs |-> objs_,
              new |-> new_, dirty |-> Range(dirtyList), db |-> db_, active |-> TRUE]
        ELSE IF \E i \in DOMAIN new_ : ~Persistable(objs_[new_[i]], db_)
        THEN [err |-> Error("IntegrityError", <<>>), validated |-> v.validated,
              objs |-> objs_, new |-> new_, dirty |-> Range(dirtyList), db |-> db_,
              active |-> FALSE]
        ELSE Then(InsertAll(new_, 1, objs_, UpdateAll(Range(dirtyList), objs_, db_)),
                  LAMBDA ins :
                    [err |-> NoError, validated |-> v.validated, objs |-> ins.objs,
                     new |-> <<>>, dirty |-> {}, db |-> ins.db, active |-> TRUE]))

IsClean == new = <<>> /\ dirty = {}

(***************************************************************************)
(* Session options and the read filter: _filter_options,                   *)
(* _add_filtering_criteria (do_orm_execute)                                *)
(***************************************************************************)
OptionValues == {"unset", "true", "false"}

\* dict.get(option, False) of an option that may be absent
OptionGet(value) == IF value = "unset" THEN FALSE ELSE value = "true"

\* get_session_factory: session.info holds both options, False by default
SessionInfos == [include_deleted : BOOLEAN, ignore_isolation : BOOLEAN]
DefaultInfo == [include_deleted |-> FALSE, ignore_isolation |-> FALSE]

NoCallOptions == [include_deleted |-> "unset", ignore_isolation |-> "unset"]

\* a statement about to execute: the queried types in column order, the kind
\* of load, the per-call execution options, and the loader criteria the
\* statement already carries (propagated from the query that loaded the
\* parent of a column or relationship load)
Query(types, load, opts, inherited) ==
    [types |-> types, load |-> load, opts |-> opts, inherited |-> inherited]

\* the filter for `option` is to be added
FilterOptions(q, option, info_) ==
    /\ q.load # "column"
    /\ q.load # "relationship"
    /\ ~OptionGet(q.opts[option])
    /\ ~info_[option]

\* execute_state.session.entity.id; "error" when the session has no entity
SessionEntityId(se, objs_) ==
    IF se.ref = "obj" THEN objs_[se.at].id
    ELSE IF se.ref = "row" THEN se.at
    ELSE NoId

\* faulty variant: a read of an unbound session runs without tenant criteria
AddFilteringCriteria_Unfiltered(q, info_, se, objs_) ==
    LET recycle == FilterOptions(q, "include_deleted", info_)
        tenant == FilterOptions(q, "ignore_isolation", info_) /\ q.types[1] # "Entity"
    IN [err |-> NoError,
        recycle |-> recycle \/ "recycle" \in q.inherited,
        tenant |-> (tenant /\ se.ref \notin {"unset", "none"}) \/ "tenant" \in q.inherited,
        entityId |-> IF se.ref \in {"unset", "none"} THEN NoId
                     ELSE SessionEntityId(se, objs_)]

\* the criteria the statement carries after _add_filtering_criteria:
\* recycle (deleted_at and destroyed_at are NULL, on every Recyclable) and
\* tenant (entity_id = session.entity.id, on every IsolatingMixin)
AddFilteringCriteria(q, info_, se, objs_) ==
    LET recycle == FilterOptions(q, "include_deleted", info_)
        tenant == FilterOptions(q, "ignore_isolation", info_) /\ q.types[1] # "Entity"
    IN IF tenant /\ se.ref \in {"unset", "none"}
       THEN [err |-> Error("AttributeError", <<>>), recycle |-> FALSE,
             tenant |-> FALSE, entityId |-> NoId]
       ELSE [err |-> NoError,
             recycle |-> recycle \/ "recycle" \in q.inherited,
             tenant |-> tenant \/ "tenant" \in q.inherited,
             entityId |-> SessionEntityId(se, objs_)]

\* faulty variant: the recycle criteria look at deleted_at only
RowsOf_DeletedOnly(kind, c, db_) ==
    {k \in DOMAIN db_ :
        /\ db_[k].kind = kind
        /\ (c.recycle /\ IsRecyclable(kind)) => ~db_[k].deleted
        /\ (c.tenant /\ IsIsolating(kind)) => db_[k].entity_id = c.entityId}

\* the rows of one kind a statement with criteria c selects
RowsOf(kind, c, db_) ==
    {k \in DOMAIN db_ :
        /\ db_[k].kind = kind
        /\ (c.recycle /\ IsRecyclable(kind)) => (~db_[k].deleted /\ ~db_[k].destroyed)
        /\ (c.tenant /\ IsIsolating(kind)) => db_[k].entity_id = c.entityId}

\* the records a statement over q.types returns: every row combination of
\* the queried types, so none when one of the types has no row left
ResultOf(q, c, db_) ==
    IF \E i \in DOMAIN q.types : RowsOf(q.types[i], c, db_) = {}
    THEN {}
    ELSE UNION {RowsOf(q.types[i], c, db_) : i \in DOMAIN q.types}

(***************************************************************************)
(* Listeners of transient_to_pending: _set_session_entity,                 *)
(* _set_object_index                                                       *)
(***************************************************************************)
State(objs_, new_, dirty_, db_, active_, se, period, ord) ==
    [objs |-> objs_, new |-> new_, dirty |-> dirty_, db |-> db_, active |-> active_,
     se |-> se, period |-> period, ord |-> ord, validated |-> <<>>, err |-> NoError]

\* list(session.dirty) in state st: the dirty objects in the order in which
\* session.dirty iterates during this operation
DirtyList(st) == SelectSeq(st.ord, LAMBDA h : h \in st.dirty)

\* target.get_hash(connection): a hash over the row's immutable fields and
\* its assigned identity
GetHash(row, k) == <<k, row.main, row.folio, row.amount, row.type, row.txn>>

\* faulty variant: the UPDATE has no WHERE clause
SetLedgerHash_EveryRow(db_, k, se) ==
    IF se.ref # "unset"
    THEN [j \in DOMAIN db_ |->
            IF db_[j].kind = "Ledger"
            THEN [db_[j] EXCEPT !.hash = GetHash(db_[k], k)] ELSE db_[j]]
    ELSE db_

\* _set_ledger_hash, after_insert of the Ledger row with id k: when the
\* session has an entity attribute, UPDATE ledger SET hash WHERE id = k
SetLedgerHash(db_, k, se) ==
    IF se.ref # "unset"
    THEN [db_ EXCEPT ![k].hash = GetHash(db_[k], k)]
    ELSE db_

\* after_insert of every Ledger row the flush inserted, from row k on
RECURSIVE AfterInsert(_, _, _)
AfterInsert(db_, k, se) ==
    IF k > Len(db_) THEN db_
    ELSE AfterInsert(IF db_[k].kind = "Ledger" THEN SetLedgerHash(db_, k, se) ELSE db_,
                     k + 1, se)

\* a flush of the session: before_flush, the writes, after_insert; also the
\* flush a query runs first when the session has pending changes
Autoflush(st) ==
    IF st.new = <<>> /\ st.dirty = {} THEN st
    ELSE Then(FlushOutcome(st.objs, st.new, DirtyList(st), st.db), LAMBDA f :
            [st EXCEPT !.objs = f.objs, !.new = f.new, !.dirty = f.dirty,
                       !.db = AfterInsert(f.db, Len(st.db) + 1, st.se),
                       !.active = f.active,
                       !.validated = f.validated, !.err = f.err])

\* session.get(Entity, k): the identity map, else a SELECT (after autoflush,
\* through the read filter)
SessionGetEntity(st, k, info_) ==
    IF \E h \in DOMAIN st.objs : st.objs[h].kind = "Entity" /\ st.objs[h].id = k
    THEN [st EXCEPT !.se = ObjRef(CHOOSE h \in DOMAIN st.objs :
                                    st.objs[h].kind = "Entity" /\ st.objs[h].id = k)]
    ELSE Then(Autoflush(st), LAMBDA st1 :
            IF st1.err # NoError THEN st1
            ELSE LET q == Query(<<"Entity">>, "query", NoCallOptions, {})
                     c == AddFilteringCriteria(q, info_, st1.se, st1.objs)
                 IN [st1 EXCEPT !.se = IF k \in ResultOf(q, c, st1.db)
                                       THEN RowRef(k) ELSE NoneVal])

\* session.entity.reporting_period
EntityPeriod(st) ==
    IF st.period = "current" THEN "current"
    ELSE IF st.se.ref = "obj" THEN st.objs[st.se.at].rp
    ELSE st.db[st.se.at].rp

\* session._set_reporting_period(): create-or-fetch for the current year
SetReportingPeriod(st) == [st EXCEPT !.period = "current"]

\* faulty variant: every transition binds anew
BindEntity_Always(st, h, info_) ==
    LET o == st.objs[h] IN
    IF o.kind = "Entity" THEN [st EXCEPT !.se = ObjRef(h)]
    ELSE IF o.entity_id = NoId
         THEN [st EXCEPT !.err = Error("MissingEntityError", <<>>)]
    ELSE SessionGetEntity(st, o.entity_id, info_)

\* lines 61-67: bind the session's entity when it has none
BindEntity(st, h, info_) ==
    LET o == st.objs[h] IN
    IF st.se.ref \in {"unset", "none"}
    THEN IF o.kind = "Entity" THEN [st EXCEPT !.se = ObjRef(h)]
         ELSE IF o.entity_id = NoId
              THEN [st EXCEPT !.err = Error("MissingEntityError", <<>>)]
         ELSE SessionGetEntity(st, o.entity_id, info_)
    ELSE st

SetSessionEntity(st, h, info_) ==
    Then(BindEntity(st, h, info_), LAMBDA st1 :
        IF st1.err # NoError THEN st1
        ELSE IF st1.se.ref = "none"
             THEN [st1 EXCEPT !.err = Error("AttributeError", <<>>)]
        ELSE IF EntityPeriod(st1) # "current" THEN SetReportingPeriod(st1)
        ELSE [st1 EXCEPT !.period = "current"])

\* the session_index _set_object_index computes for object o
\* faulty variant: the pending records are not counted
ObjectIndex_AlwaysOne(o, new_, objs_) == 1

\* faulty variant: the record itself is left out of the count
ObjectIndex_ExcludingSelf(o, new_, objs_) ==
    Cardinality({i \in DOMAIN new_ :
                    /\ objs_[new_[i]].kind = o.kind
                    /\ objs_[new_[i]].type = o.type}) - 1

ObjectIndex(o, new_, objs_) ==
    Cardinality({i \in DOMAIN new_ :
                    /\ objs_[new_[i]].kind = o.kind
                    /\ objs_[new_[i]].type = o.type})

SetObjectIndex(st, h) ==
    LET o == st.objs[h] IN
    IF o.kind \in {"Account", "Transaction"} /\ o.id = NoId
    THEN [st EXCEPT !.objs[h].idx = ObjectIndex(o, st.new, st.objs)]
    ELSE st

\* Session.add(o) of a transient object: it enters session.new, then
\* transient_to_pending runs the listeners in registration order; an
\* exception of the first keeps the second from running
AddOutcome(st, o, info_) ==
    LET h == Len(st.objs) + 1 IN
    Then([st EXCEPT !.objs = Append(st.objs, o), !.new = Append(st.new, h)],
         LAMBDA st0 :
            Then(SetSessionEntity(st0, h, info_), LAMBDA st1 :
                IF st1.err # NoError THEN st1 ELSE SetObjectIndex(st1, h)))

\* Session.add of the object with handle h that the session expunged while
\* it was pending: it is transient, so it enters session.new and
\* transient_to_pending runs the listeners again
ReAddOutcome(st, h, info_) ==
    Then([st EXCEPT !.new = Append(st.new, h)],
         LAMBDA st0 :
            Then(SetSessionEntity(st0, h, info_), LAMBDA st1 :
                IF st1.err # NoError THEN st1 ELSE SetObjectIndex(st1, h)))

(***************************************************************************)
(* The unit of work (Spec)                                                 *)
(***************************************************************************)
\* the session as an operation finds it
Current(ord) == State(objs, new, dirty, db, active, sessionEntity, sessionPeriod, ord)

Become(st) ==
    /\ objs' = st.objs
    /\ new' = st.new
    /\ dirty' = st.dirty
    /\ db' = st.db
    /\ active' = st.active
    /\ sessionEntity' = st.se
    /\ sessionPeriod' = st.period
    /\ validated' = st.validated
    /\ lastError' = st.err

\* entity_id values a caller gives: none, the two stored Entities, and an id
\* no Entity has
EntityIds == {NoId, 1, 2, 9}
AddTypes == {"Bank", "Receivable"}

AccountIds(db_) == {k \in DOMAIN db_ : db_[k].kind = "Account"}

\* the transient objects a caller constructs
NewObjects(db_) ==
    {Object("Entity", NoId, "-", NoId)}
    \cup {Object("Account", e, t, NoId) : e \in EntityIds, t \in AddTypes}
    \cup {Object("Transaction", e, "CashPurchase", m) :
            e \in EntityIds, m \in AccountIds(db_)}

Add(o) ==
    /\ active
    /\ \E ord \in Orders(dirty) :
       \E st \in {AddOutcome(Current(ord), o, info)} : Become(st)
    /\ lastOp' = "add"
    /\ UNCHANGED <<info, lastRead, postVars>>

\* account.account_type = t on an object of the session
SetAccountType(h, t) ==
    /\ active
    /\ h \in DOMAIN objs
    /\ objs[h].kind = "Account"
    /\ objs[h].type # t
    /\ objs' = [objs EXCEPT ![h].type = t]
    /\ dirty' = IF objs[h].id # NoId THEN dirty \cup {h} ELSE dirty
    /\ validated' = <<>>
    /\ lastError' = NoError
    /\ lastOp' = "set"
    /\ UNCHANGED <<new, db, active, sessionEntity, sessionPeriod, info, lastRead,
                   postVars>>

\* session.flush()
Flush ==
    /\ active
    /\ ~IsClean
    /\ \E ord \in Orders(dirty) :
       \E st \in {Autoflush(Current(ord))} : Become(st)
    /\ lastOp' = "flush"
    /\ UNCHANGED <<info, lastRead, postVars>>

\* session.commit(): flush what is pending, then commit the transaction
Commit ==
    /\ active
    /\ \E ord \in Orders(dirty) :
       \E st \in {Autoflush(Current(ord))} : Become(st)
    /\ lastOp' = "commit"
    /\ UNCHANGED <<info, lastRead, postVars>>

NoRead == [q |-> Query(<<>>, "none", NoCallOptions, {}), err |-> NoError, result |-> {},
           recycle |-> FALSE, tenant |-> FALSE, entityId |-> NoId]

InitDb ==
    << Row("Entity", NoId, "-", NoId, FALSE, FALSE, "current"),
       Row("Entity", NoId, "-", NoId, FALSE, FALSE, "none") >>

InitPost ==
    /\ lineItems = <<>>
    /\ ledger = <<>>
    /\ posted = FALSE
    /\ postError = NoError

InitSession ==
    /\ objs = <<>>
    /\ new = <<>>
    /\ dirty = {}
    /\ active = TRUE
    /\ sessionEntity = Unset
    /\ sessionPeriod = "none"
    /\ validated = <<>>
    /\ lastError = NoError
    /\ lastOp = "none"
    /\ lastRead = NoRead

Init ==
    /\ InitSession
    /\ db = InitDb
    /\ info = DefaultInfo
    /\ InitPost

Next ==
    \/ (Len(objs) < MaxObjects /\ \E o \in NewObjects(db) : Add(o))
    \/ \E h \in DOMAIN objs, t \in AddTypes : SetAccountType(h, t)
    \/ Flush
    \/ Commit

Spec == Init /\ [][Next]_vars

(***************************************************************************)
(* The unit of work of one tenant (SpecIndex): the records of Entity 1,    *)
(* enough of them for several pending records of one type                  *)
(***************************************************************************)
IndexObjects(db_) ==
    {Object("Entity", NoId, "-", NoId)}
    \cup {Object("Account", 1, t, NoId) : t \in AddTypes}
    \cup {Object("Transaction", 1, "CashPurchase", m) : m \in AccountIds(db_)}

\* session.expunge(object) of a pending object: it leaves session.new and is
\* transient again
Expunge(h) ==
    /\ active
    /\ h \in Range(new)
    /\ new' = SelectSeq(new, LAMBDA x : x # h)
    /\ validated' = <<>>
    /\ lastError' = NoError
    /\ lastOp' = "expunge"
    /\ UNCHANGED <<objs, dirty, db, active, sessionEntity, sessionPeriod, info,
                   lastRead, postVars>>

\* session.add(object) of an object the session expunged
ReAdd(h) ==
    /\ active
    /\ h \in DOMAIN objs
    /\ h \notin Range(new)
    /\ objs[h].id = NoId
    /\ \E ord \in Orders(dirty) :
       \E st \in {ReAddOutcome(Current(ord), h, info)} : Become(st)
    /\ lastOp' = "readd"
    /\ UNCHANGED <<info, lastRead, postVars>>

\* the type changes are those of pending records: session.new is all that
\* _set_object_index reads
IndexNext ==
    \/ (Len(objs) < MaxIndexed /\ \E o \in IndexObjects(db) : Add(o))
    \/ \E h \in Range(new), t \in AddTypes : SetAccountType(h, t)
    \/ Flush

SpecIndex == Init /\ [][IndexNext]_vars

(***************************************************************************)
(* The unit of work of one tenant that also expunges pending records and   *)
(* adds them again (SpecReindex)                                           *)
(***************************************************************************)
ReindexNext ==
    \/ (Len(objs) < MaxReindexed /\ \E o \in IndexObjects(db) : Add(o))
    \/ \E h \in DOMAIN objs, t \in AddTypes : SetAccountType(h, t)
    \/ \E h \in DOMAIN objs : Expunge(h)
    \/ \E h \in DOMAIN objs : ReAdd(h)
    \/ Flush

SpecReindex == Init /\ [][ReindexNext]_vars

(***************************************************************************)
(* The unit of work over stored records (SpecWrite): the session also      *)
(* loads Accounts earlier sessions committed and modifies them             *)
(***************************************************************************)
\* the persistent object a query builds from row k
Loaded(k, db_) ==
    [kind |-> db_[k].kind, id |-> k, entity_id |-> db_[k].entity_id,
     type |-> db_[k].type, main |-> db_[k].main, idx |-> NoIndex, rp |-> db_[k].rp,
     folio |-> db_[k].folio, amount |-> db_[k].amount, txn |-> db_[k].txn]

\* session.execute(select(Account).where(Account.id == k),
\* execution_options={"ignore_isolation": opt}): the query flushes what is
\* pending, passes do_orm_execute, and the row it returns enters the identity
\* map as a persistent object; no transient_to_pending fires
Load(k, opt) ==
    /\ active
    /\ k \in AccountIds(db)
    /\ \A h \in DOMAIN objs : objs[h].id # k
    /\ \E ord \in Orders(dirty) :
       \E st \in {Autoflush(Current(ord))} :
       \E q \in {Query(<<"Account">>, "query",
                       [include_deleted |-> "unset", ignore_isolation |-> opt], {})} :
       \E c \in {AddFilteringCriteria(q, info, st.se, st.objs)} :
          IF st.err # NoError THEN Become(st)
          ELSE IF c.err # NoError THEN Become([st EXCEPT !.err = c.err])
          ELSE IF k \in ResultOf(q, c, st.db)
               THEN Become([st EXCEPT !.objs = Append(st.objs, Loaded(k, st.db))])
          ELSE Become(st)
    /\ lastOp' = "load"
    /\ UNCHANGED <<info, lastRead, postVars>>

\* rows earlier sessions committed: two tenants with one Account each
WriteDb ==
    << Row("Entity", NoId, "-", NoId, FALSE, FALSE, "current"),
       Row("Entity", NoId, "-", NoId, FALSE, FALSE, "none"),
       Row("Account", 1, "Bank", NoId, FALSE, FALSE, "none"),
       Row("Account", 2, "Bank", NoId, FALSE, FALSE, "none") >>

WriteObjects ==
    {Object("Entity", NoId, "-", NoId)}
    \cup {Object("Account", e, "Receivable", NoId) : e \in {1, 2}}

WriteInit ==
    /\ InitSession
    /\ db = WriteDb
    /\ info = DefaultInfo
    /\ InitPost

WriteNext ==
    \/ (Len(objs) < MaxHeld /\ \E o \in WriteObjects : Add(o))
    \/ (Len(objs) < MaxHeld /\ \E k \in DOMAIN db, opt \in {"unset", "true"} : Load(k, opt))
    \/ \E h \in DOMAIN objs, t \in AddTypes : SetAccountType(h, t)
    \/ Flush
    \/ Commit

SpecWrite == WriteInit /\ [][WriteNext]_vars

(***************************************************************************)
(* The unit of work that inserts Ledger rows (SpecHash)                    *)
(***************************************************************************)
\* rows earlier sessions committed: Entity 1, the soft-deleted Entity 2, two
\* Accounts and a Transaction of Entity 1
HashDb ==
    << Row("Entity", NoId, "-", NoId, FALSE, FALSE, "current"),
       Row("Entity", NoId, "-", NoId, TRUE, FALSE, "current"),
       Row("Account", 1, "Bank", NoId, FALSE, FALSE, "none"),
       Row("Account", 1, "DirectExpense", NoId, FALSE, FALSE, "none"),
       Row("Transaction", 1, "CashPurchase", 3, FALSE, FALSE, "none") >>

\* the Ledger objects the posting of the stored Transaction adds
LedgerObjects(db_) ==
    {LedgerObject(e, entry, a[1], a[2], 100, t) :
        e \in {1, 2}, entry \in {"Credit", "Debit"},
        a \in {<<3, 4>>, <<4, 3>>},
        t \in {k \in DOMAIN db_ : db_[k].kind = "Transaction"}}

HashInit ==
    /\ InitSession
    /\ db = HashDb
    /\ info = DefaultInfo
    /\ InitPost

HashNext ==
    \/ (Len(objs) < MaxLedgers /\ \E o \in LedgerObjects(db) : Add(o))
    \/ Flush
    \/ Commit

SpecHash == HashInit /\ [][HashNext]_vars

(***************************************************************************)
(* Reads (SpecRead)                                                        *)
(***************************************************************************)
\* session.execute(statement, execution_options=...): a query first flushes
\* what is pending; do_orm_execute then adds the criteria; the statement runs
Execute(q) ==
    /\ active
    /\ \E ord \in Orders(dirty) :
       \E st \in {IF q.load = "query" THEN Autoflush(Current(ord)) ELSE Current(ord)} :
       \E c \in {AddFilteringCriteria(q, info, st.se, st.objs)} :
          IF st.err # NoError
          THEN /\ Become(st)
               /\ lastRead' = [NoRead EXCEPT !.q = q, !.err = st.err]
          ELSE /\ Become([st EXCEPT !.err = c.err])
               /\ lastRead' = [q |-> q, err |-> c.err,
                               result |-> IF c.err = NoError
                                          THEN ResultOf(q, c, st.db) ELSE {},
                               recycle |-> c.recycle, tenant |-> c.tenant,
                               entityId |-> c.entityId]
    /\ lastOp' = "read"
    /\ UNCHANGED <<info, postVars>>

CallOptions == [include_deleted : OptionValues, ignore_isolation : OptionValues]

\* statements a caller executes
Queries ==
    {Query(t, "query", o, {}) :
        t \in {<<"Account">>, <<"Entity">>, <<"Entity", "Account">>,
               <<"Account", "Entity">>},
        o \in CallOptions}

\* column and relationship loads the ORM emits for loaded objects; the
\* statement carries the criteria of the query that loaded the parent
LoaderQueries(se) ==
    {Query(t, l, o, i) :
        t \in {<<"Account">>, <<"Entity">>},
        l \in {"column", "relationship"},
        o \in CallOptions,
        i \in IF se.ref \in {"obj", "row"}
              THEN SUBSET {"recycle", "tenant"} ELSE SUBSET {"recycle"}}

\* rows earlier sessions committed: two tenants, each with a live and a
\* soft-deleted or destroyed account
ReadDb ==
    << Row("Entity", NoId, "-", NoId, FALSE, FALSE, "current"),
       Row("Entity", NoId, "-", NoId, FALSE, FALSE, "none"),
       Row("Account", 1, "Bank", NoId, FALSE, FALSE, "none"),
       Row("Account", 1, "Bank", NoId, TRUE, FALSE, "none"),
       Row("Account", 2, "Receivable", NoId, FALSE, FALSE, "none"),
       Row("Account", 2, "Receivable", NoId, FALSE, TRUE, "none") >>

ReadInit ==
    /\ InitSession
    /\ db = ReadDb
    /\ info \in SessionInfos
    /\ InitPost

ReadNext ==
    \/ (objs = <<>> /\ lastRead = NoRead /\ \E o \in NewObjects(db) : Add(o))
    \/ \E q \in Queries : Execute(q)
    \/ \E q \in LoaderQueries(sessionEntity) : Execute(q)

SpecRead == ReadInit /\ [][ReadNext]_vars

(***************************************************************************)
(* Ledger posting of a CashPurchase (SpecPost)                             *)
(***************************************************************************)
NoTax == [rate |-> 0, account |-> NoId]
Tax(rate, account) == [rate |-> rate, account |-> account]
LineItem(account, amount, tax) == [account |-> account, amount |-> amount, tax |-> tax]
Ledger(entry, postAccount, folioAccount, amount) ==
    [entry |-> entry, post |-> postAccount, folio |-> folioAccount, amount |-> amount]

\* n / d rounded to the nearest integer, halves to even; amounts count the
\* currency's minor unit
RoundDiv(n, d) ==
    LET q == n \div d
        r == n % d
    IN IF 2 * r < d THEN q
       ELSE IF 2 * r > d THEN q + 1
       ELSE IF q % 2 = 0 THEN q ELSE q + 1

\* the tax of a line item: amount * rate / 100, rounded to the minor unit
TaxAmount(li) == RoundDiv(li.amount * li.tax.rate, 100)

\* faulty variant: the Debit row of the tax pair carries the principal
LineItemRows_TaxDebitPrincipal(li, main) ==
    (IF li.tax # NoTax /\ TaxAmount(li) # 0
     THEN << Ledger("Credit", main, li.tax.account, TaxAmount(li)),
             Ledger("Debit", li.tax.account, main, li.amount) >>
     ELSE <<>>)
    \o << Ledger("Credit", main, li.account, li.amount),
          Ledger("Debit", li.account, main, li.amount) >>

\* faulty variant: the principal pair is emitted before the tax pair
LineItemRows_PrincipalFirst(li, main) ==
    << Ledger("Credit", main, li.account, li.amount),
       Ledger("Debit", li.account, main, li.amount) >>
    \o (IF li.tax # NoTax /\ TaxAmount(li) # 0
        THEN << Ledger("Credit", main, li.tax.account, TaxAmount(li)),
                Ledger("Debit", li.tax.account, main, TaxAmount(li)) >>
        ELSE <<>>)

\* the Ledger rows of one line item: the tax pair when there is a tax with a
\* non-zero amount, then the principal pair
LineItemRows(li, main) ==
    (IF li.tax # NoTax /\ TaxAmount(li) # 0
     THEN << Ledger("Credit", main, li.tax.account, TaxAmount(li)),
             Ledger("Debit", li.tax.account, main, TaxAmount(li)) >>
     ELSE <<>>)
    \o << Ledger("Credit", main, li.account, li.amount),
          Ledger("Debit", li.account, main, li.amount) >>

RECURSIVE PostRows(_, _)
PostRows(items, main) ==
    IF items = <<>> THEN <<>>
    ELSE LineItemRows(Head(items), main) \o PostRows(Tail(items), main)

\* the fixture of tests/test_cash_purchase.py, flushed: the entity, accounts
\* of several types and a CashPurchase on the Bank account
PostDb ==
    << Row("Entity", NoId, "-", NoId, FALSE, FALSE, "current"),
       Row("Account", 1, "Bank", NoId, FALSE, FALSE, "none"),
       Row("Account", 1, "DirectExpense", NoId, FALSE, FALSE, "none"),
       Row("Account", 1, "Control", NoId, FALSE, FALSE, "none"),
       Row("Account", 1, "Receivable", NoId, FALSE, FALSE, "none"),
       Row("Account", 1, "Inventory", NoId, FALSE, FALSE, "none"),
       Row("Transaction", 1, "CashPurchase", 2, FALSE, FALSE, "none") >>

PostTxn == CHOOSE k \in DOMAIN PostDb : PostDb[k].kind = "Transaction"
MainAccount(db_) == db_[PostTxn].main

AccountsOfType(db_, types) ==
    {k \in DOMAIN db_ : db_[k].kind = "Account" /\ db_[k].type \in types}

\* the line items a caller constructs
NewLineItems(db_) ==
    {LineItem(a, n, t) :
        a \in AccountsOfType(db_, {"DirectExpense", "Inventory", "Receivable"}),
        n \in {4, 100},
        t \in {NoTax} \cup {Tax(r, c) : r \in {10, 15},
                                        c \in AccountsOfType(db_, {"Control"})}}

\* transaction.line_items.add(li): the account type is checked on attachment
Attach(li) ==
    /\ ~posted
    /\ IF db[li.account].type \in Range(CashPurchaseLineItemTypes)
       THEN /\ lineItems' = Append(lineItems, li)
            /\ postError' = NoError
       ELSE /\ postError' = Error("InvalidLineItemAccountError",
                                  CashPurchaseLineItemTypes)
            /\ UNCHANGED lineItems
    /\ lastOp' = "attach"
    /\ UNCHANGED <<ledger, posted, objs, new, dirty, db, active, sessionEntity,
                   sessionPeriod, info, validated, lastError, lastRead>>

\* faulty variant: post does not look at whether the transaction is posted
Post_Again ==
    /\ ledger' = ledger \o PostRows(lineItems, MainAccount(db))
    /\ posted' = TRUE
    /\ postError' = NoError
    /\ lastOp' = "post"
    /\ UNCHANGED <<lineItems, objs, new, dirty, db, active, sessionEntity,
                   sessionPeriod, info, validated, lastError, lastRead>>

\* transaction.post(session)
Post ==
    /\ IF posted
       THEN /\ postError' = Error("AlreadyPosted", <<>>)
            /\ UNCHANGED <<ledger, posted>>
       ELSE /\ ledger' = PostRows(lineItems, MainAccount(db))
            /\ posted' = TRUE
            /\ postError' = NoError
    /\ lastOp' = "post"
    /\ UNCHANGED <<lineItems, objs, new, dirty, db, active, sessionEntity,
                   sessionPeriod, info, validated, lastError, lastRead>>

PostInit ==
    /\ InitSession
    /\ db = PostDb
    /\ info = DefaultInfo
    /\ InitPost

PostNext ==
    \/ (Len(lineItems) < MaxLineItems /\ \E li \in NewLineItems(db) : Attach(li))
    \/ Post

SpecPost == PostInit /\ [][PostNext]_vars

(***************************************************************************)
(* Properties of posting (SpecPost)                                        *)
(***************************************************************************)
RECURSIVE SumOf(_, _)
SumOf(rows, entry) ==
    IF rows = <<>> THEN 0
    ELSE (IF Head(rows).entry = entry THEN Head(rows).amount ELSE 0)
         + SumOf(Tail(rows), entry)

\* C1: the Ledger rows of a posted Transaction balance: the Credit amounts
\* and the Debit amounts have the same sum, whatever line items (with or
\* without tax) were attached before the post.
C1_PostedBalances ==
    posted => SumOf(ledger, "Credit") = SumOf(ledger, "Debit")

\* a posted transaction of two line items, one of them taxed
C1_Witness ==
    /\ posted
    /\ Len(lineItems) = 2
    /\ \E i \in DOMAIN lineItems : lineItems[i].tax # NoTax
    /\ Len(ledger) = 6

\* the tax pair of line item li is due: it has a tax whose amount, rounded to
\* the minor unit, is not zero
C2_Taxed(li) == li.tax # NoTax /\ 2 * li.amount * li.tax.rate > 100

\* t is amount * rate / 100 to the nearest minor unit
C2_IsTaxOf(t, li) ==
    /\ 100 * t - 50 <= li.amount * li.tax.rate
    /\ li.amount * li.tax.rate <= 100 * t + 50

\* the number of Ledger rows the line items before the i-th produce
C2_Offset(i) ==
    2 * (i - 1) + 2 * Cardinality({j \in 1..(i - 1) : C2_Taxed(lineItems[j])})

C2_Principal(at, li, main) ==
    /\ ledger[at] = Ledger("Credit", main, li.account, li.amount)
    /\ ledger[at + 1] = Ledger("Debit", li.account, main, li.amount)

C2_TaxPair(at, li, main) ==
    /\ ledger[at].entry = "Credit"
    /\ ledger[at].post = main
    /\ ledger[at].folio = li.tax.account
    /\ C2_IsTaxOf(ledger[at].amount, li)
    /\ ledger[at + 1] = Ledger("Debit", li.tax.account, main, ledger[at].amount)

\* C2: post emits the rows of the line items in attachment order, for each
\* line item the tax pair (Credit main/tax account, Debit tax account/main,
\* both of the tax amount) before the principal pair (Credit main/line item
\* account, Debit line item account/main, both of the line item's amount),
\* the tax pair only for a tax with a non-zero amount; one line item of 100
\* at 10% gives exactly the amounts 10, 10, 100, 100.
C2_PostOrder ==
    posted =>
        LET main == db[PostTxn].main
            n == Len(lineItems)
        IN /\ Len(ledger) = (IF n = 0 THEN 0 ELSE C2_Offset(n + 1))
           /\ \A i \in 1..n :
                LET li == lineItems[i]
                    at == C2_Offset(i) + 1
                IN IF C2_Taxed(li)
                   THEN C2_TaxPair(at, li, main) /\ C2_Principal(at + 2, li, main)
                   ELSE C2_Principal(at, li, main)
           /\ (n = 1 /\ lineItems[1].amount = 100 /\ lineItems[1].tax.rate = 10)
                => [i \in 1..4 |-> ledger[i].amount] = <<10, 10, 100, 100>>

\* posted: a line item of 100 at 10%, then one whose tax rounds to nothing
C2_Witness ==
    /\ posted
    /\ Len(lineItems) = 2
    /\ lineItems[1].amount = 100 /\ lineItems[1].tax.rate = 10
    /\ lineItems[2].amount = 4 /\ lineItems[2].tax.rate = 10
    /\ Len(ledger) = 6

\* C3: a post of a Transaction that is already posted raises AlreadyPosted
\* and leaves the Ledger rows as the first post made them.
C3_RepostRejected ==
    [][(posted /\ lastOp' = "post")
        => (postError' = Error("AlreadyPosted", <<>>) /\ ledger' = ledger /\ posted')]_vars

\* a second post of a transaction with rows was refused
C3_Witness ==
    /\ posted
    /\ postError.name = "AlreadyPosted"
    /\ Len(ledger) >= 4

C6_Allowed ==
    <<"OperatingExpense", "DirectExpense", "OverheadExpense", "Expense",
      "NonCurrentAsset", "CurrentAsset", "Inventory">>

\* C6: attaching to a CashPurchase a LineItem whose account type is not in
\* the allowed set raises InvalidLineItemAccount in the attachment itself,
\* naming exactly the allowed types in order, and the LineItem is not among
\* the line items afterwards.
C6_InvalidLineItemRejected ==
    [][\A li \in NewLineItems(db) :
        (Attach(li) /\ db[li.account].type \notin Range(C6_Allowed))
            => /\ postError' = Error("InvalidLineItemAccountError", C6_Allowed)
               /\ lineItems' = lineItems
               /\ \A i \in DOMAIN lineItems' : lineItems'[i] # li]_vars

\* a Receivable line item was refused after another had been attached
C6_Witness ==
    /\ lastOp = "attach"
    /\ postError.name = "InvalidLineItemAccountError"
    /\ Len(lineItems) = 1

(***************************************************************************)
(* Properties of the unit of work (Spec)                                   *)
(***************************************************************************)
\* C4: whenever a flush writes, validate has run on every new and dirty
\* record that has a validate capability and none has failed; a flush or
\* commit that finds a failing one among them is aborted as a whole: nothing
\* is written, every record stays as pending or dirty as it was.
C4_ValidateBeforeFlush ==
    [][LET added == DOMAIN objs' \ DOMAIN objs
           pending == Range(new) \cup dirty \cup added
           able == {h \in pending : objs'[h].kind \in {"Account", "Transaction"}}
       IN /\ db' # db
                => /\ able \subseteq Range(validated')
                   /\ lastError'.name # "InvalidMainAccountError"
          /\ (/\ lastOp' \in {"flush", "commit"}
              /\ \E h \in able : Validate(objs[h], objs, db) # NoError)
                => /\ lastError'.name = "InvalidMainAccountError"
                   /\ db' = db
                   /\ objs' = objs
                   /\ new' = new
                   /\ dirty' = dirty]_vars

\* a flush failed on the second of two pending records: the Account that had
\* passed validation was not written either
C4_Witness ==
    /\ lastOp = "flush"
    /\ lastError.name = "InvalidMainAccountError"
    /\ Len(new) = 2
    /\ validated = new
    /\ objs[new[1]].kind = "Account"
    /\ \A i \in DOMAIN new : objs[new[i]].id = NoId

\* C5: a commit with a pending CashPurchase whose main account is not of
\* type Bank fails with InvalidMainAccount naming Bank, raised by the flush
\* of the commit, and the Transaction is not persisted.
C5_CommitRejectsNonBankMain ==
    [][\A h \in Range(new) :
        (/\ lastOp' = "commit"
         /\ objs[h].kind = "Transaction"
         /\ objs[h].type = "CashPurchase"
         /\ AccountTypeOf(objs[h].main, objs, db) # "Bank")
            => /\ lastError' = Error("InvalidMainAccountError", <<"Bank">>)
               /\ h \in Range(new')
               /\ objs'[h].id = NoId
               /\ db' = db]_vars

\* the commit of a CashPurchase on a Receivable account was refused
C5_Witness ==
    /\ lastOp = "commit"
    /\ lastError = Error("InvalidMainAccountError", <<"Bank">>)
    /\ \E h \in Range(new) :
        /\ objs[h].kind = "Transaction"
        /\ objs[h].id = NoId
        /\ AccountTypeOf(objs[h].main, objs, db) = "Receivable"

\* the pending records of the kind and type of o, in a session's new list
C7_SameType(o, new_, objs_) ==
    {i \in DOMAIN new_ : /\ objs_[new_[i]].kind = o.kind
                         /\ objs_[new_[i]].type = o.type}

\* an add step that left the added Account or Transaction pending, without error
C7_Added ==
    /\ lastOp' = "add"
    /\ Len(objs') = Len(objs) + 1
    /\ lastError' = NoError
    /\ objs'[Len(objs')].kind \in {"Account", "Transaction"}
    /\ objs'[Len(objs')].id = NoId

\* C7: an Account or Transaction that add leaves pending receives as its
\* session index the number of pending records of its type counted with the
\* record itself: 1 for the first of a type, 2 for the second, and 1 again
\* for the first of another type.
C7_IndexCountsSelf ==
    [][C7_Added =>
        LET o == objs'[Len(objs')] IN
        /\ o.idx = Cardinality(C7_SameType(o, new, objs)) + 1
        /\ o.idx >= 1]_vars

\* C7 as the specification states it: the index is the number of pending
\* records of the type counted before the record is included, 0 for the
\* first of a type.
C7_IndexCountsBefore ==
    [][C7_Added =>
        LET o == objs'[Len(objs')] IN
        o.idx = Cardinality(C7_SameType(o, new, objs))]_vars

\* two Accounts of one type and one of another, pending, indexed 1, 2 and 1
C7_Witness ==
    /\ Len(new) = 3
    /\ \A i \in DOMAIN new : objs[new[i]].kind = "Account" /\ objs[new[i]].id = NoId
    /\ objs[new[1]].type = "Bank" /\ objs[new[1]].idx = 1
    /\ objs[new[2]].type = "Bank" /\ objs[new[2]].idx = 2
    /\ objs[new[3]].type = "Receivable" /\ objs[new[3]].idx = 1

(***************************************************************************)
(* Properties of reads (SpecRead)                                          *)
(***************************************************************************)
\* row k is of a queried type and passes the tenant criteria of the last read
C8_Admitted(k) ==
    /\ \E i \in DOMAIN lastRead.q.types : db[k].kind = lastRead.q.types[i]
    /\ (lastRead.tenant /\ db[k].kind # "Entity")
            => db[k].entity_id = lastRead.entityId

C8_Gone(k) == db[k].deleted \/ db[k].destroyed

\* what C8 says of the last read, whatever statement it was
C8_OfLastRead ==
    /\ (lastRead.q.opts.include_deleted = "unset" /\ ~info.include_deleted)
            => \A k \in lastRead.result : ~C8_Gone(k)
    /\ (/\ lastRead.q.opts.include_deleted = "true"
        /\ \A i \in DOMAIN lastRead.q.types :
                \E k \in DOMAIN db : db[k].kind = lastRead.q.types[i] /\ C8_Admitted(k))
            => \A k \in DOMAIN db : (C8_Admitted(k) /\ C8_Gone(k)) => k \in lastRead.result

\* C8: a read that is not a column or relationship load, executed with
\* include_deleted unset at the call and at the session, returns no record
\* whose deleted_at or destroyed_at is set; executed with include_deleted
\* true at the call it returns such records too.
C8_QueryHidesDeleted ==
    (lastRead.q.load = "query" /\ lastRead.err = NoError) => C8_OfLastRead

\* C8 as the specification states it: of every read, column and relationship
\* loads included.
C8_EveryReadHidesDeleted ==
    (lastRead.q.load # "none" /\ lastRead.err = NoError) => C8_OfLastRead

\* a default query for the accounts of tenant 1 returned the live account
\* and left out the soft-deleted one
C8_Witness ==
    /\ lastRead.q = Query(<<"Account">>, "query", NoCallOptions, {})
    /\ info = DefaultInfo
    /\ lastRead.err = NoError
    /\ sessionEntity = RowRef(1)
    /\ ~db[3].deleted /\ 3 \in lastRead.result
    /\ db[4].deleted /\ db[4].entity_id = 1 /\ 4 \notin lastRead.result

\* C9: in a session bound to a tenant, a query executed without
\* ignore_isolation at the call and at the session returns no record of a
\* tenant-scoped type whose entity_id is another tenant's, whatever types
\* the query involves.
C9_QueryIsolatesTenant ==
    (/\ lastRead.q.load = "query"
     /\ lastRead.err = NoError
     /\ sessionEntity.ref \in {"obj", "row"}
     /\ lastRead.q.opts.ignore_isolation # "true"
     /\ ~info.ignore_isolation)
        => \A k \in lastRead.result :
                db[k].kind # "Entity"
                    => db[k].entity_id = SessionEntityId(sessionEntity, objs)

\* the option in effect when the per-call value takes precedence
C10_Effective(call, session) == IF call = "unset" THEN session ELSE call = "true"

\* C10: for include_deleted and ignore_isolation the per-call value, when
\* given, decides whether the query is filtered, and the per-session value
\* otherwise.
C10_CallTakesPrecedence ==
    (lastRead.q.load = "query" /\ lastRead.err = NoError)
        => /\ lastRead.recycle
                = ~C10_Effective(lastRead.q.opts.include_deleted, info.include_deleted)
           /\ lastRead.q.types[1] # "Entity"
                => lastRead.tenant
                    = ~C10_Effective(lastRead.q.opts.ignore_isolation, info.ignore_isolation)

(***************************************************************************)
(* Properties of the tenant binding (Spec)                                 *)
(***************************************************************************)
\* the session is bound to an Entity
C11_Bound(se) == se.ref \in {"obj", "row"}

\* C11: a session starts unbound; only a record's transition into the
\* pending set binds it; the transition that completes in an unbound session
\* binds the record itself when it is an Entity and otherwise the Entity its
\* entity_id names; once bound, no later operation changes the binding.
C11_BindsOnce ==
    /\ sessionEntity = Unset
    /\ [][/\ C11_Bound(sessionEntity) => sessionEntity' = sessionEntity
          /\ sessionEntity' # sessionEntity
                => (lastOp' = "add" /\ Len(objs') = Len(objs) + 1)
          /\ (/\ ~C11_Bound(sessionEntity)
              /\ lastOp' = "add"
              /\ Len(objs') = Len(objs) + 1
              /\ lastError' = NoError)
                => LET h == Len(objs')
                       o == objs'[h]
                   IN IF o.kind = "Entity"
                      THEN sessionEntity' = ObjRef(h)
                      ELSE /\ C11_Bound(sessionEntity')
                           /\ o.entity_id # NoId
                           /\ SessionEntityId(sessionEntity', objs') = o.entity_id]_vars

\* bound to Entity 1 by its first record, the session took a record of
\* Entity 2 and stayed bound to Entity 1
C11_Witness ==
    /\ sessionEntity = RowRef(1)
    /\ Len(objs) >= 2
    /\ objs[1].entity_id = 1
    /\ objs[Len(objs)].entity_id = 2
    /\ lastOp = "add"
    /\ lastError = NoError

\* no Entity, stored or held by the session, has id e
C12_Unresolvable(e) ==
    \/ e = NoId
    \/ /\ ~(e \in DOMAIN db /\ db[e].kind = "Entity")
       /\ ~\E h \in DOMAIN objs : objs[h].kind = "Entity" /\ objs[h].id = e

\* C12: when a record that is not an Entity and whose entity_id is unset or
\* names no existing Entity enters an unbound session, the add fails with
\* MissingEntityError, the session stays unbound, the record gets no
\* session index and nothing is written.
C12_MissingTenant ==
    [][(/\ lastOp' = "add"
        /\ Len(objs') = Len(objs) + 1
        /\ ~C11_Bound(sessionEntity)
        /\ objs'[Len(objs')].kind # "Entity"
        /\ C12_Unresolvable(objs'[Len(objs')].entity_id))
            => /\ lastError'.name = "MissingEntityError"
               /\ ~C11_Bound(sessionEntity')
               /\ objs'[Len(objs')].idx = NoIndex
               /\ db' = db]_vars

\* the part of C12 the code delivers: the record whose entity_id is unset
C12_UnsetEntityId ==
    [][(/\ lastOp' = "add"
        /\ Len(objs') = Len(objs) + 1
        /\ ~C11_Bound(sessionEntity)
        /\ objs'[Len(objs')].kind # "Entity"
        /\ objs'[Len(objs')].entity_id = NoId)
            => /\ lastError'.name = "MissingEntityError"
               /\ ~C11_Bound(sessionEntity')
               /\ objs'[Len(objs')].idx = NoIndex
               /\ db' = db]_vars

(***************************************************************************)
(* Properties of the unit of work over stored records (SpecWrite)          *)
(***************************************************************************)
\* the session has written a record that is not an Entity
C13_Wrote(db_) ==
    \E k \in DOMAIN db_ :
        /\ db_[k].kind # "Entity"
        /\ (k \notin DOMAIN WriteDb \/ db_[k] # WriteDb[k])

\* C13: whenever a commit that succeeds commits the write of a created or
\* modified record that is not an Entity, the session is bound to a tenant
\* and holds the reporting period of the current year.
C13_CommitHasPeriod ==
    [][(lastOp' = "commit" /\ lastError' = NoError /\ C13_Wrote(db'))
        => (C11_Bound(sessionEntity') /\ sessionPeriod' = "current")]_vars

(***************************************************************************)
(* Properties of the hash finalization (SpecHash)                          *)
(***************************************************************************)
\* C14: a Ledger row inserted while the session is bound to a tenant has its
\* hash from the step that inserts it, so it is never committed without one,
\* and a Ledger row inserted by a session that has no tenant gets no hash.
C14_HashOnlyWhenBound ==
    [][\A k \in DOMAIN db' :
        (k \notin DOMAIN db /\ db'[k].kind = "Ledger")
            => /\ C11_Bound(sessionEntity) => db'[k].hash # NoHash
               /\ (~C11_Bound(sessionEntity) /\ ~C11_Bound(sessionEntity'))
                    => db'[k].hash = NoHash]_vars

\* the part of C14 the code delivers: the rows a bound session inserts
C14_BoundInsertHashed ==
    [][\A k \in DOMAIN db' :
        (k \notin DOMAIN db /\ db'[k].kind = "Ledger" /\ C11_Bound(sessionEntity))
            => db'[k].hash # NoHash]_vars

\* the objects a step inserted
C18_Inserted ==
    {h \in DOMAIN objs' :
        /\ objs'[h].id # NoId
        /\ (h \notin DOMAIN objs \/ objs[h].id = NoId)}

\* C18: the hash finalization of an inserted Ledger row changes only the
\* hash of that row: its post account, folio account, amount, entry type and
\* transaction stay as inserted, no Ledger row stored before changes, and
\* the step adds exactly one row per inserted object.
C18_HashUpdatesOneRow ==
    [][/\ \A k \in DOMAIN db :
            k \in DOMAIN db' /\ (db[k].kind = "Ledger" => db'[k] = db[k])
       /\ Len(db') = Len(db) + Cardinality(C18_Inserted)
       /\ \A h \in C18_Inserted :
            objs'[h].kind = "Ledger"
                => LET k == objs'[h].id
                       r == db'[k]
                   IN /\ k \notin DOMAIN db
                      /\ r.main = objs'[h].main
                      /\ r.folio = objs'[h].folio
                      /\ r.amount = objs'[h].amount
                      /\ r.type = objs'[h].type
                      /\ r.txn = objs'[h].txn
                      /\ [r EXCEPT !.hash = NoHash] = RowOf(objs'[h])
                      /\ r.hash \in {NoHash,
                                     <<k, r.main, r.folio, r.amount, r.type, r.txn>>}]_vars

\* a flush has inserted and hashed a Ledger row while an earlier hashed
\* Ledger row was stored
C18_Witness ==
    /\ lastOp = "flush"
    /\ lastError = NoError
    /\ \E j, k \in DOMAIN db :
        /\ j < k
        /\ db[j].kind = "Ledger" /\ db[j].hash # NoHash
        /\ db[k].kind = "Ledger" /\ db[k].hash # NoHash
        /\ \E h \in DOMAIN objs : objs[h].id = k

(***************************************************************************)
(* Properties of the session index (SpecIndex)                             *)
(***************************************************************************)
\* C15: of two Accounts of one account type (or Transactions of one
\* transaction type) that enter the pending set one right after the other,
\* the earlier still pending, the later gets the strictly larger index.
C15_LaterIndexLarger ==
    [][(/\ C7_Added
        /\ lastOp = "add"
        /\ lastError = NoError
        /\ Len(objs) >= 1
        /\ objs[Len(objs)].idx # NoIndex
        /\ objs[Len(objs)].id = NoId
        /\ objs[Len(objs)].kind = objs'[Len(objs')].kind
        /\ objs[Len(objs)].type = objs'[Len(objs')].type)
            => objs'[Len(objs')].idx > objs[Len(objs)].idx]_vars

\* C15 as the specification states it: the later of two records of one type
\* gets the strictly larger index whatever happened in the session between
\* their transitions.
C15_IndexMonotonic ==
    [][C7_Added =>
        \A h \in DOMAIN objs :
            (/\ objs[h].kind = objs'[Len(objs')].kind
             /\ objs[h].type = objs'[Len(objs')].type
             /\ objs[h].idx # NoIndex)
                => objs'[Len(objs')].idx > objs[h].idx]_vars

\* after a flush the count started again: a flushed Bank Account with index
\* 1, then two pending ones with indexes 1 and 2
C15_Witness ==
    /\ lastOp = "add"
    /\ Len(objs) = 4
    /\ \A h \in 2..4 : objs[h].kind = "Account" /\ objs[h].type = "Bank"
    /\ objs[2].id # NoId /\ objs[2].idx = 1
    /\ objs[3].id = NoId /\ objs[3].idx = 1
    /\ objs[4].id = NoId /\ objs[4].idx = 2

(***************************************************************************)
(* Properties of the session index under expunge (SpecReindex)             *)
(***************************************************************************)
\* C16: a session index, once assigned, is changed by no later operation of
\* the session (add of other records, flush, expunge and add again, change
\* of type), and a record that is neither Account nor Transaction never has
\* one.
C16_IndexNeverChanges ==
    /\ [][\A h \in DOMAIN objs :
            objs[h].idx # NoIndex => objs'[h].idx = objs[h].idx]_vars
    /\ [](\A h \in DOMAIN objs :
            objs[h].kind \notin {"Account", "Transaction"} => objs[h].idx = NoIndex)

\* the part of C16 the code delivers: the index of a record that stays in
\* the session is kept, and it is assigned only while the record has no id
C16_IndexKeptInSession ==
    [][\A h \in DOMAIN objs :
        /\ (objs[h].idx # NoIndex /\ lastOp' # "readd")
                => objs'[h].idx = objs[h].idx
        /\ objs'[h].idx # objs[h].idx => objs'[h].id = NoId]_vars

\* C20: the Accounts of one account type that are pending and not yet
\* persisted carry pairwise distinct session indexes (likewise the
\* Transactions of one transaction type).
C20_PendingIndexesDistinct ==
    \A i, j \in DOMAIN new :
        (/\ i # j
         /\ objs[new[i]].kind \in {"Account", "Transaction"}
         /\ objs[new[i]].kind = objs[new[j]].kind
         /\ objs[new[i]].type = objs[new[j]].type
         /\ objs[new[i]].id = NoId
         /\ objs[new[j]].id = NoId
         /\ objs[new[i]].idx # NoIndex
         /\ objs[new[j]].idx # NoIndex)
            => objs[new[i]].idx # objs[new[j]].idx

(***************************************************************************)
(* Reads of a session without a tenant (SpecRead)                          *)
(***************************************************************************)
\* C17: a query (not a column or relationship load) whose first queried
\* type is not Entity, executed without ignore_isolation at the call and at
\* the session while the session has no tenant, fails with an error and
\* returns no record.
C17_UnboundReadFails ==
    (/\ lastRead.q.load = "query"
     /\ lastRead.q.types[1] # "Entity"
     /\ lastRead.q.opts.ignore_isolation # "true"
     /\ ~info.ignore_isolation
     /\ sessionEntity.ref \in {"unset", "none"})
        => (lastRead.err # NoError /\ lastRead.result = {})

\* a default query for accounts in a session that never had a tenant failed
\* on the tenant's id, although the database holds accounts
C17_Witness ==
    /\ lastRead.q = Query(<<"Account">>, "query", NoCallOptions, {})
    /\ info = DefaultInfo
    /\ sessionEntity.ref = "unset"
    /\ lastRead.err = Error("AttributeError", <<>>)
    /\ lastRead.result = {}
    /\ \E k \in DOMAIN db : db[k].kind = "Account"

(***************************************************************************)
(* The tenant of the records a session writes (Spec)                       *)
(***************************************************************************)
\* C19: once the session is bound to a tenant, every Account, Transaction
\* or Ledger the session has flushed carries that tenant's id as entity_id.
C19_FlushedBelongToTenant ==
    sessionEntity.ref \in {"obj", "row"}
        => \A h \in DOMAIN objs :
                (objs[h].kind # "Entity" /\ objs[h].id # NoId)
                    => objs[h].entity_id = SessionEntityId(sessionEntity, objs)

====
